---- MODULE Spec2Model ----
(***************************************************************************)
(* A model of package set: the type-classification cache (TypeInfoCache),  *)
(* the Value wrapper built by V, the coercing assignment Value.To, the     *)
(* struct traversal Value.Fill / Value.FillByTag and Value.FieldByIndex.   *)
(***************************************************************************)
EXTENDS Integers, Sequences, FiniteSets, TLC

VARIABLES
    \* a destination variable d wrapped as V(&d), a source value and the heap
    dstType,    \* the declared type of d
    dst,        \* the value d holds (of a slice: its header is dstHdr)
    dstHdr,     \* the slice header of d: backing array and length
    src,        \* the source value (of a slice: its header is srcHdr)
    srcHdr,     \* the slice header of the source
    mem,        \* the backing arrays: array id -> its cap elements
    last,       \* the call made by the step that led here, and its outcome
    copied,     \* a To(src) on d succeeded and src was not replaced since
    \* a struct variable wrapped as V(&s) and a Getter
    fillType,   \* the declared type of s
    fillVal,    \* the value s holds
    getter,     \* the Getter handed to Fill and FillByTag
    fillLast,   \* the call made by the step that led here, and its outcome
    \* one typeInfoCache and the threads calling StatType on it
    cache,      \* the sync.Map: type -> << >> (no entry) or << descriptor >>
    pc,         \* thread -> 0 (not in a call) or its position in Program
    statT,      \* thread -> the type T its call was given
    statRv,     \* thread -> its local descriptor rv, as far as it is built
    builds,     \* type -> how many times a descriptor for it was built and stored
    raced,      \* type -> a lookup missed while another call was building it
    returned,   \* type -> the descriptors calls returned for it, and how
    \* a struct variable h wrapped for FieldByIndex
    walkVal,    \* the value h holds
    walkLast,   \* the call made by the step that led here, and its outcome
    \* a variable x and the wrapper V returned for it
    wrapped,    \* the *Value: descriptor, CanWrite and the bound methods
    wrapVal,    \* the value x holds
    wrapLast    \* the call made by the step that led here, and its outcome

toVars == << dstType, dst, dstHdr, src, srcHdr, mem, last, copied >>
fillVars == << fillType, fillVal, getter, fillLast >>
cacheVars == << cache, pc, statT, statRv, builds, raced, returned >>
walkVars == << walkVal, walkLast >>
wrapVars == << wrapped, wrapVal, wrapLast >>
vars == << toVars, fillVars, cacheVars, walkVars, wrapVars >>
\* what the steps of each part of the model leave alone
exceptTo == << fillVars, cacheVars, walkVars, wrapVars >>
exceptFill == << toVars, cacheVars, walkVars, wrapVars >>
exceptCache == << toVars, fillVars, walkVars, wrapVars >>
exceptWalk == << toVars, fillVars, cacheVars, wrapVars >>
exceptWrap == << toVars, fillVars, cacheVars, walkVars >>

(***************************************************************************)
(* Bounds of the model.                                                    *)
(***************************************************************************)
\* integers carried by slice elements range over 0 .. MaxInt
MaxInt == 1
\* a Getter returns at most MaxGetters Getters in a []Getter
MaxGetters == 2
\* the threads that call StatType on one cache
NumThreads == 2
\* source slices hold at most MaxLen elements
MaxLen == 2
\* an index path handed to FieldByIndex has at most MaxPath elements
MaxPath == 2

(***************************************************************************)
(* The type universe (what package reflect reports for each type).         *)
(***************************************************************************)
\* the unsigned integer types of the model
UintTypes == {"uint32", "uint64"}
ScalarTypes == {"int", "string", "bool", "float64"} \cup UintTypes
PtrTypes == {"*int", "**int", "*string", "*[]int"}
SliceTypes == {"[]int", "[]string", "[]any"}
StructTypes == {"Outer", "Inner", "Mixed", "Holder"}
Types == ScalarTypes \cup PtrTypes \cup SliceTypes \cup StructTypes
            \cup {"[]Inner", "*Inner", "*Mixed", "map[string]int", "any"}

\* reflect.Type.Kind()
KindOf(T) ==
    CASE T \in ScalarTypes -> T
      [] T \in PtrTypes \cup {"*Inner", "*Mixed"} -> "ptr"
      [] T \in SliceTypes \cup {"[]Inner"} -> "slice"
      [] T \in StructTypes -> "struct"
      [] T = "map[string]int" -> "map"
      [] T = "any" -> "interface"
      [] OTHER -> "invalid"

\* reflect.Type.Elem() of a pointer, slice or map type
ElemOf(T) ==
    CASE T = "*int" -> "int"
      [] T = "**int" -> "*int"
      [] T = "*string" -> "string"
      [] T = "*[]int" -> "[]int"
      [] T = "*Inner" -> "Inner"
      [] T = "*Mixed" -> "Mixed"
      [] T = "[]int" -> "int"
      [] T = "[]string" -> "string"
      [] T = "[]any" -> "any"
      [] T = "[]Inner" -> "Inner"
      [] T = "map[string]int" -> "int"
      [] OTHER -> "nil"

\* a struct field as reflect.StructField reports it: Exported is PkgPath = "",
\* Tag is the value of the one struct tag key the model uses ("" = no such tag)
SF(name, type, exported, tag) ==
    [Name |-> name, Type |-> type, Exported |-> exported, Tag |-> tag]

\* reflect.Type.NumField() / Field(k): the declared fields, unexported included
DeclaredFields(T) ==
    CASE T = "Outer" -> << SF("A", "int", TRUE, "a"),
                           SF("In", "Inner", TRUE, "in"),
                           SF("Ins", "[]Inner", TRUE, "ins"),
                           SF("Z", "[]int", TRUE, "") >>
      [] T = "Inner" -> << SF("X", "int", TRUE, "x"),
                           SF("Y", "string", TRUE, "") >>
      [] T = "Holder" -> << SF("Id", "int", TRUE, "id"),
                            SF("P", "*Inner", TRUE, "p"),
                            SF("In", "Inner", TRUE, "in") >>
      [] T = "Mixed" -> << SF("P", "int", TRUE, "p"),
                           SF("hidden", "int", FALSE, "h"),
                           SF("R", "string", TRUE, "r") >>
      [] OTHER -> << >>

NumField(T) == Len(DeclaredFields(T))

\* reflect's assignability between the types of the universe: identical
\* types, or any type to the empty interface
AssignableTo(S, T) == S = T \/ T = "any"

(***************************************************************************)
(* TypeInfo and the classification StatType computes.                      *)
(***************************************************************************)
\* TypeInfo{}: the zero descriptor
ZeroTypeInfo ==
    [IsScalar |-> FALSE, IsMap |-> FALSE, IsSlice |-> FALSE, IsStruct |-> FALSE,
     Kind |-> "invalid", Type |-> "nil", ElemType |-> "nil", StructFields |-> << >>]

\* the pointer loop of StatType: the type at the end of the pointer chain
RECURSIVE EndOfChain(_)
EndOfChain(T) == IF KindOf(T) = "ptr" THEN EndOfChain(ElemOf(T)) ELSE T

\* the classification flags of a resolved kind
IsScalarKind(K) == K \in {"bool", "int", "string", "float64"} \cup UintTypes

\* the fields StatType appends to rv.StructFields
CollectFields(T) == DeclaredFields(T)

\* rv after the classification flags are set from the resolved kind K
Classified(rv, K) ==
    [rv EXCEPT !.IsMap = (K = "map"), !.IsSlice = (K = "slice"),
               !.IsStruct = (K = "struct"), !.IsScalar = IsScalarKind(K)]

\* rv after the element type or the struct fields of the resolved type T
\* are attached
Attached(rv, T) ==
    IF rv.IsMap \/ rv.IsSlice THEN [rv EXCEPT !.ElemType = ElemOf(T)]
    ELSE IF rv.IsStruct THEN [rv EXCEPT !.StructFields = CollectFields(T)]
    ELSE rv

\* rv after rv.Type, rv.Kind = T, K
Described(rv, T, K) == [rv EXCEPT !.Type = T, !.Kind = K]

\* the descriptor StatType builds for a non-nil type T
BuildTypeInfo(T) ==
    Described(Attached(Classified(ZeroTypeInfo, KindOf(EndOfChain(T))), EndOfChain(T)),
              EndOfChain(T), KindOf(EndOfChain(T)))

\* StatType as a function of its argument (a nil type gives the zero descriptor)
StatTypeOf(T) == IF T = "nil" THEN ZeroTypeInfo ELSE BuildTypeInfo(T)

(***************************************************************************)
(* Values.  A value is a record: t its dynamic type ("nil" for the nil     *)
(* interface), n the number of an int or bool, s the text of a string,     *)
(* p the pointee of a pointer (empty when the pointer is nil), es the      *)
(* elements of a slice or the field values of a struct in field order.     *)
(***************************************************************************)
Nil == [t |-> "nil", n |-> 0, s |-> "", p |-> << >>, es |-> << >>]
IntV(n) == [t |-> "int", n |-> n, s |-> "", p |-> << >>, es |-> << >>]
StrV(s) == [t |-> "string", n |-> 0, s |-> s, p |-> << >>, es |-> << >>]
BoolV(b) == [t |-> "bool", n |-> IF b THEN 1 ELSE 0, s |-> "", p |-> << >>, es |-> << >>]
NilPtr(T) == [t |-> T, n |-> 0, s |-> "", p |-> << >>, es |-> << >>]
PtrV(T, v) == [t |-> T, n |-> 0, s |-> "", p |-> << v >>, es |-> << >>]
SliceV(T, es) == [t |-> T, n |-> 0, s |-> "", p |-> << >>, es |-> es]
StructV(T, es) == [t |-> T, n |-> 0, s |-> "", p |-> << >>, es |-> es]
\* an unsigned integer of type T
UintV(T, n) == [t |-> T, n |-> n, s |-> "", p |-> << >>, es |-> << >>]
\* a float64, n counting hundredths: FloatV(159) is 1.59
FloatV(h) == [t |-> "float64", n |-> h, s |-> "", p |-> << >>, es |-> << >>]

\* reflect.Zero(T)
RECURSIVE ZeroOf(_)
ZeroOf(T) ==
    CASE KindOf(T) = "int" -> IntV(0)
      [] KindOf(T) = "string" -> StrV("")
      [] KindOf(T) = "bool" -> BoolV(FALSE)
      [] KindOf(T) \in UintTypes -> UintV(T, 0)
      [] KindOf(T) = "float64" -> FloatV(0)
      [] KindOf(T) = "struct" ->
            StructV(T, [k \in 1..NumField(T) |-> ZeroOf(DeclaredFields(T)[k].Type)])
      [] OTHER -> NilPtr(T)

(***************************************************************************)
(* Coercion primitives (spec section 4.4).                                 *)
(***************************************************************************)
Digit(d) ==
    CASE d = 0 -> "0" [] d = 1 -> "1" [] d = 2 -> "2" [] d = 3 -> "3" [] d = 4 -> "4"
      [] d = 5 -> "5" [] d = 6 -> "6" [] d = 7 -> "7" [] d = 8 -> "8" [] OTHER -> "9"

\* the decimal text of an integer
RECURSIVE Digits(_)
Digits(n) == IF n < 10 THEN Digit(n) ELSE Digits(n \div 10) \o Digit(n % 10)
FormatInt(n) == IF n < 0 THEN "-" \o Digits(0 - n) ELSE Digits(n)

\* the integers whose decimal text the model's strings can spell
Parseable == (0 - 20) .. 20
\* the decimal integer grammar: the parsed number, or no parse
ParseIntOk(s) == \E n \in Parseable : FormatInt(n) = s
ParseInt(s) == CHOOSE n \in Parseable : FormatInt(n) = s
\* the float grammar on the texts that are not integers: the number truncated
\* toward zero
ParseFloatOk(s) == s \in {"1.59", "-3.14"}
TruncFloat(s) == IF s = "1.59" THEN 1 ELSE 0 - 3
\* the boolean grammar
ParseBoolOk(s) == s \in {"true", "false", "1", "0"}
ParseBool(s) == s \in {"true", "1"}

Fault == [ok |-> FALSE, v |-> Nil]
Coerced(v) == [ok |-> TRUE, v |-> v]

\* a float (in hundredths) converted to an integer: truncated toward zero
Trunc(h) == IF h < 0 THEN 0 - ((0 - h) \div 100) ELSE h \div 100

\* ToUint as the plain conversion of the integer n to an unsigned type: of
\* the two's complement of n, the low 16 bits (the same for either width)
ToUintWrapping(T, n) == Coerced(UintV(T, n % (2 ^ 16)))

\* the integer n converted to the unsigned type T: a negative n yields 0
ToUint(T, n) == Coerced(UintV(T, IF n < 0 THEN 0 ELSE n))

\* coerce(target, value): value converted to the target's type T, or a fault;
\* a float64 is a source of numeric and boolean targets only
coerce(T, value) ==
    LET K == KindOf(T)
        SK == KindOf(value.t)
    IN CASE K = "int" /\ SK \in {"int", "bool"} \cup UintTypes -> Coerced(IntV(value.n))
         [] K = "int" /\ SK = "float64" -> Coerced(IntV(Trunc(value.n)))
         [] K \in UintTypes /\ SK \in {"int", "bool"} \cup UintTypes -> ToUint(T, value.n)
         [] K \in UintTypes /\ SK = "float64" -> ToUint(T, Trunc(value.n))
         [] K \in UintTypes /\ SK = "string" ->
              IF ParseIntOk(value.s) THEN ToUint(T, ParseInt(value.s))
              ELSE IF ParseFloatOk(value.s) THEN ToUint(T, TruncFloat(value.s))
              ELSE Fault
         [] K = "int" /\ SK = "string" ->
              IF ParseIntOk(value.s) THEN Coerced(IntV(ParseInt(value.s)))
              ELSE IF ParseFloatOk(value.s) THEN Coerced(IntV(TruncFloat(value.s)))
              ELSE Fault
         [] K = "string" /\ SK = "string" -> Coerced(StrV(value.s))
         [] K = "string" /\ SK \in {"int"} \cup UintTypes -> Coerced(StrV(FormatInt(value.n)))
         [] K = "string" /\ SK = "bool" ->
              Coerced(StrV(IF value.n = 1 THEN "true" ELSE "false"))
         [] K = "bool" /\ SK = "bool" -> Coerced(BoolV(value.n = 1))
         [] K = "bool" /\ SK \in {"int", "float64"} \cup UintTypes -> Coerced(BoolV(value.n # 0))
         [] K = "bool" /\ SK = "string" ->
              IF ParseBoolOk(value.s) THEN Coerced(BoolV(ParseBool(value.s))) ELSE Fault
         [] OTHER -> Fault

(***************************************************************************)
(* The Value wrapper.                                                      *)
(***************************************************************************)
\* Writable(v): the descriptor of the location's type and whether the
\* location, after indirection, can be set
Writable(T, settable) == [ti |-> StatTypeOf(T), CanWrite |-> T # "nil" /\ settable]

\* the method V binds to methodAppend
BindAppend(ti) == IF ti.IsSlice THEN "appendSupported" ELSE "appendUnsupported"
\* the method V binds to methodNewElem
BindNewElem(ti) ==
    IF ti.IsMap \/ ti.IsSlice THEN "newElemSupported" ELSE "newElemUnsupported"
\* the method V binds to methodZero
BindZero(canWrite) == IF canWrite THEN "zeroSupported" ELSE "zeroUnsupported"
\* the methods V binds to methodFields and methodFieldsByTag
BindFields(ti) == IF ti.IsStruct THEN "fieldsSupported" ELSE "fieldsUnsupported"
BindFieldsByTag(ti) ==
    IF ti.IsStruct THEN "fieldsByTagSupported" ELSE "fieldsByTagUnsupported"

\* V(arg): the wrapper of a location of type T; T = "nil" is V(nil)
V(T, settable) ==
    LET w == Writable(T, settable)
    IN [ti |-> w.ti,
        CanWrite |-> w.CanWrite,
        hasOriginal |-> T # "nil",
        ElemTypeInfo |-> IF w.ti.IsMap \/ w.ti.IsSlice
                         THEN StatTypeOf(w.ti.ElemType) ELSE ZeroTypeInfo,
        methodAppend |-> BindAppend(w.ti),
        methodFields |-> BindFields(w.ti),
        methodFieldsByTag |-> BindFieldsByTag(w.ti),
        methodNewElem |-> BindNewElem(w.ti),
        methodZero |-> BindZero(w.CanWrite)]

(***************************************************************************)
(* Value.To.  The outcome of me.To(arg): st is "ok" (nil error), "err" (an *)
(* error is returned) or "panic"; w tells whether the wrapped location was *)
(* written at all, v is the value the location holds afterwards when w,    *)
(* and direct tells that v is arg itself, stored by reflect's Set (a slice *)
(* stored that way shares arg's backing array).                            *)
(***************************************************************************)
Outcome(st, w, v, direct) == [st |-> st, w |-> w, v |-> v, direct |-> direct]

\* TypeCache.Stat(arg)
Stat(arg) == StatTypeOf(arg.t)

\* me.Zero(): TRUE when methodZero is zeroSupported (which cannot fail)
ZeroSucceeds(me) == me.methodZero = "zeroSupported"

\* FastPath without the exclusion of slice destinations
FastPathAlsoSlices(dataTypeInfo, me) == AssignableTo(dataTypeInfo.Type, me.ti.Type)

\* the condition of the direct-assignment branch of To
FastPath(dataTypeInfo, me) ==
    AssignableTo(dataTypeInfo.Type, me.ti.Type) /\ me.ti.Kind # "slice"

\* the pointer loop of To: the value at the end of arg's pointer chain;
\* hitNil when a pointer of the chain is nil
RECURSIVE Indirect(_)
Indirect(v) ==
    IF KindOf(v.t) # "ptr" THEN [hitNil |-> FALSE, v |-> v]
    ELSE IF v.p = << >> THEN [hitNil |-> TRUE, v |-> v]
    ELSE Indirect(v.p[1])

\* AsItems without the one-element wrapping
AsItemsUnwrapped(dataTypeInfo, arg) == arg.es

\* the items the slice branch of To iterates: arg wrapped in a one-element
\* []interface{} when its descriptor is not a slice, else arg itself
AsItems(dataTypeInfo, arg) == IF ~dataTypeInfo.IsSlice THEN << arg >> ELSE arg.es

\* AfterElemError without the call of me.Zero()
AfterElemErrorKeep(me, built) == SliceV(me.ti.Type, built)

\* what the slice branch leaves in the location when element k fails with an
\* error: me.Zero() is called before the error is returned
AfterElemError(me, built) == ZeroOf(me.ti.Type)

\* CollapseIndex taking the first item
CollapseIndexFirst(n) == 1

\* the item a non-slice destination takes from a non-empty source slice
\* (index Len-1 counted from 0)
CollapseIndex(n) == n

RECURSIVE To(_, _)
RECURSIVE ToElems(_, _, _, _)

\* the element loop of the slice branch: items[k..] coerced one by one into a
\* fresh element wrapper and appended to built
ToElems(me, items, k, built) ==
    IF k > Len(items) THEN Outcome("ok", TRUE, SliceV(me.ti.Type, built), FALSE)
    ELSE LET r == To(V(me.ti.ElemType, TRUE), items[k])
         IN CASE r.st = "err" -> Outcome("err", TRUE, AfterElemError(me, built), FALSE)
              [] r.st = "panic" -> Outcome("panic", TRUE, SliceV(me.ti.Type, built), FALSE)
              [] OTHER -> ToElems(me, items, k + 1, Append(built, r.v))

To(me, arg) ==
    LET dataTypeInfo == Stat(arg)
        zero == ZeroOf(me.ti.Type)
    IN IF ~me.hasOriginal THEN Outcome("err", FALSE, Nil, FALSE)
       ELSE IF ~ZeroSucceeds(me) THEN Outcome("err", FALSE, Nil, FALSE)
       ELSE IF arg.t = "nil" \/ dataTypeInfo.Kind = "invalid" THEN Outcome("ok", TRUE, zero, FALSE)
       ELSE IF FastPath(dataTypeInfo, me) THEN
            \* reflect.Value.Set panics unless arg's own type is assignable
            IF AssignableTo(arg.t, me.ti.Type) THEN Outcome("ok", TRUE, arg, TRUE)
            ELSE Outcome("panic", TRUE, zero, FALSE)
       ELSE LET dataValue == Indirect(arg)
            IN IF dataValue.hitNil THEN Outcome("ok", TRUE, zero, FALSE)
               ELSE IF me.ti.IsSlice THEN
                    \* reflect.Value.Len panics on a pointer
                    IF dataTypeInfo.IsSlice /\ KindOf(arg.t) = "ptr"
                    THEN Outcome("panic", TRUE, zero, FALSE)
                    ELSE ToElems(me, AsItems(dataTypeInfo, arg), 1, << >>)
               ELSE IF dataTypeInfo.Kind = "slice" THEN
                    IF Len(dataValue.v.es) > 0
                    THEN To(me, dataValue.v.es[CollapseIndex(Len(dataValue.v.es))])
                    ELSE Outcome("ok", TRUE, zero, FALSE)
               ELSE LET c == coerce(me.ti.Type, dataValue.v)
                    IN IF c.ok THEN Outcome("ok", TRUE, c.v, FALSE)
                       ELSE Outcome("err", TRUE, zero, FALSE)

(***************************************************************************)
(* Assignment between two variables: d, wrapped as V(&d), and a source.    *)
(* Slices live in the heap mem, so that sharing of a backing array between *)
(* the source and d is visible to later writes.                            *)
(***************************************************************************)
Ints == 0 .. MaxInt
Strs == {"1", "x"}
IntElems == {IntV(n) : n \in Ints}
StrElems == {StrV(x) : x \in Strs}
AnyElems == {IntV(1), StrV("x"), Nil}
ElemsOfType(T) ==
    CASE T = "[]int" -> IntElems [] T = "[]string" -> StrElems [] OTHER -> AnyElems

SeqsUpTo(S, n) == UNION {[1..k -> S] : k \in 0..n}

\* the source values that are not slices
PlainSources ==
    {Nil, BoolV(TRUE), IntV(0 - 1), StrV("1.59"), StrV("-1")} \cup IntElems \cup StrElems
    \cup {NilPtr("*int"), PtrV("*int", IntV(1)), NilPtr("*string"),
          PtrV("*string", StrV("1")), PtrV("*string", StrV("x")),
          PtrV("**int", NilPtr("*int")), PtrV("**int", PtrV("*int", IntV(1))),
          NilPtr("*[]int"), PtrV("*[]int", SliceV("[]int", << IntV(0), IntV(1) >>)),
          PtrV("*[]int", SliceV("[]int", << >>))}

DstTypes == {"int", "string", "bool", "[]int", "[]string"}
ArrayIds == {1, 2, 3}
NilHdr == [arr |-> 0, len |-> 0]
NoCall == [act |-> "none", st |-> "ok", w |-> FALSE, arg |-> Nil, prev |-> Nil]

IsSliceType(T) == KindOf(T) = "slice"

\* the elements seen through a slice header
ElemsOf(h) == IF h.arr = 0 THEN << >> ELSE SubSeq(mem[h.arr], 1, h.len)
CapOf(h) == IF h.arr = 0 THEN 0 ELSE Len(mem[h.arr])
\* a variable's value with the elements of its slice read from the heap
Loaded(v, h) == IF IsSliceType(v.t) THEN SliceV(v.t, ElemsOf(h)) ELSE v
DstValue == Loaded(dst, dstHdr)
SrcValue == Loaded(src, srcHdr)

\* the capacity Go's append gives a slice grown from cap to hold need elements
RECURSIVE GrowCap(_, _)
GrowCap(cap, need) ==
    IF need <= cap THEN cap ELSE GrowCap(IF cap = 0 THEN 1 ELSE 2 * cap, need)

\* an array of cap slots holding es, the spare slots zero
Padded(es, cap, T) ==
    [k \in 1..cap |-> IF k <= Len(es) THEN es[k] ELSE ZeroOf(ElemOf(T))]

\* an array id no header refers to
FreeId(h1, h2) == CHOOSE a \in ArrayIds : a # h1.arr /\ a # h2.arr
\* the heap with array a set to arr and every array that neither header
\* refers to collected
Heap(a, arr, h1, h2) ==
    [b \in ArrayIds |-> IF b = a THEN arr
                        ELSE IF b \in {h1.arr, h2.arr} THEN mem[b] ELSE << >>]

\* no thread is in a call and the cache is empty
IdleCache ==
    /\ cache = [T \in {"nil"} |-> << >>] /\ pc = << >> /\ statT = << >> /\ statRv = << >>
    /\ builds = << >> /\ raced = << >> /\ returned = << >>

\* no struct is being walked
NoWalk == [recv |-> "none", index |-> << >>, st |-> "ok", err |-> "", t |-> "nil"]
IdleWalk == walkVal = Nil /\ walkLast = NoWalk

\* no variable is wrapped
NoMethod == [act |-> "none", st |-> "ok", err |-> "", n |-> 0]
IdleWrap == wrapped = << >> /\ wrapVal = Nil /\ wrapLast = NoMethod

\* no struct is being filled
NoFill == [act |-> "none", st |-> "ok", log |-> << >>, prev |-> Nil]
IdleFill ==
    /\ fillType = "nil" /\ fillVal = Nil /\ getter = Nil /\ fillLast = NoFill

InitTo ==
    /\ IdleFill /\ IdleCache /\ IdleWalk /\ IdleWrap
    /\ dstType \in DstTypes
    /\ \E sT \in SliceTypes \cup {"plain"} :
        \E ses \in SeqsUpTo(ElemsOfType(sT), MaxLen), spare \in 0..1, shared \in BOOLEAN :
          /\ IF sT = "plain"
             THEN /\ ses = << >> /\ spare = 0 /\ ~shared
                  /\ src \in PlainSources
                  /\ srcHdr = NilHdr
             ELSE /\ src = SliceV(sT, << >>)
                  /\ srcHdr = [arr |-> 1, len |-> Len(ses)]
                  /\ shared => sT = dstType
          \* d starts with stale contents; a slice d may even start as a copy
          \* of the source's header
          /\ dst = CASE dstType = "int" -> IntV(1)
                     [] dstType = "string" -> StrV("x")
                     [] dstType = "bool" -> BoolV(TRUE)
                     [] OTHER -> SliceV(dstType, << >>)
          /\ dstHdr = IF ~IsSliceType(dstType) THEN NilHdr
                      ELSE IF shared THEN srcHdr ELSE [arr |-> 2, len |-> 1]
          /\ mem = [a \in ArrayIds |->
                      CASE a = 1 /\ sT # "plain" -> Padded(ses, Len(ses) + spare, sT)
                        [] a = 2 /\ IsSliceType(dstType) /\ ~shared ->
                              << IF dstType = "[]int" THEN IntV(1) ELSE StrV("x") >>
                        [] OTHER -> << >>]
    /\ last = NoCall
    /\ copied = FALSE

\* V(&d).To(src)
DoTo ==
    LET me == V(dstType, TRUE)
        arg == SrcValue
        r == To(me, arg)
        a == FreeId(srcHdr, dstHdr)
    IN /\ last' = [act |-> "To", st |-> r.st, w |-> r.w, arg |-> arg, prev |-> DstValue]
       /\ copied' = (r.st = "ok")
       /\ UNCHANGED << dstType, src, srcHdr, exceptTo >>
       /\ IF ~r.w THEN UNCHANGED << dst, dstHdr, mem >>
          ELSE IF ~IsSliceType(dstType)
          THEN /\ dst' = r.v
               /\ UNCHANGED << dstHdr, mem >>
          ELSE /\ dst' = dst
               /\ IF r.direct
                  \* reflect's Set copies the header: d shares arg's array
                  THEN /\ dstHdr' = srcHdr
                       /\ mem' = Heap(0, << >>, srcHdr, srcHdr)
                  ELSE IF r.v.es = << >>
                  THEN /\ dstHdr' = NilHdr
                       /\ mem' = Heap(0, << >>, srcHdr, NilHdr)
                  ELSE /\ dstHdr' = [arr |-> a, len |-> Len(r.v.es)]
                       /\ mem' = Heap(a, Padded(r.v.es, GrowCap(0, Len(r.v.es)), dstType),
                                      srcHdr, NilHdr)

\* the caller writes an element of the source slice
WriteSrc ==
    /\ IsSliceType(src.t)
    /\ \E i \in 1..srcHdr.len, x \in ElemsOfType(src.t) :
         /\ mem[srcHdr.arr][i] # x
         /\ mem' = [mem EXCEPT ![srcHdr.arr][i] = x]
    /\ last' = [NoCall EXCEPT !.act = "WriteSrc"]
    /\ UNCHANGED << dstType, dst, dstHdr, src, srcHdr, copied, exceptTo >>

\* the caller appends to the source slice
AppendSrc ==
    /\ IsSliceType(src.t)
    /\ srcHdr.len < MaxLen
    /\ \E x \in ElemsOfType(src.t) :
         IF srcHdr.len < CapOf(srcHdr)
         THEN /\ mem' = [mem EXCEPT ![srcHdr.arr][srcHdr.len + 1] = x]
              /\ srcHdr' = [srcHdr EXCEPT !.len = srcHdr.len + 1]
         ELSE LET a == FreeId(srcHdr, dstHdr)
                  es == Append(ElemsOf(srcHdr), x)
              IN /\ srcHdr' = [arr |-> a, len |-> Len(es)]
                 /\ mem' = Heap(a, Padded(es, GrowCap(CapOf(srcHdr), Len(es)), src.t),
                                NilHdr, dstHdr)
    /\ last' = [NoCall EXCEPT !.act = "AppendSrc"]
    /\ UNCHANGED << dstType, dst, dstHdr, src, copied, exceptTo >>

\* the caller writes an element of d
WriteDst ==
    /\ IsSliceType(dstType)
    /\ \E i \in 1..dstHdr.len, x \in ElemsOfType(dstType) :
         /\ mem[dstHdr.arr][i] # x
         /\ mem' = [mem EXCEPT ![dstHdr.arr][i] = x]
    /\ last' = [NoCall EXCEPT !.act = "WriteDst"]
    /\ UNCHANGED << dstType, dst, dstHdr, src, srcHdr, copied, exceptTo >>

NextTo == DoTo \/ WriteSrc \/ AppendSrc \/ WriteDst

SpecTo == InitTo /\ [][NextTo]_vars

(***************************************************************************)
(* Assignment to an unsigned destination: d is a uint32 or a uint64        *)
(* wrapped as V(&d), the source a scalar or a pointer to one.              *)
(***************************************************************************)
\* the sources: those of the Uint examples with their neighbours, a text that
\* is no number, nil, and pointers
UintSources ==
    {IntV(0 - 999), IntV(0 - 1), IntV(0), IntV(1), IntV(999)}
    \cup {FloatV(0 - 159), FloatV(0 - 115), FloatV(0 - 50), FloatV(0), FloatV(115), FloatV(159)}
    \cup {StrV("1"), StrV("-1"), StrV("1.59"), StrV("-3.14"), StrV("x")}
    \cup {BoolV(TRUE), BoolV(FALSE), Nil, UintV("uint32", 1), UintV("uint64", 1)}
    \cup {NilPtr("*int"), PtrV("*int", IntV(0 - 1)), PtrV("*string", StrV("-1"))}

\* d starts with a stale value
InitUint ==
    /\ IdleFill /\ IdleCache /\ IdleWalk /\ IdleWrap
    /\ dstType \in UintTypes
    /\ dst \in {UintV(dstType, 0), UintV(dstType, 999)}
    /\ src \in UintSources
    /\ dstHdr = NilHdr /\ srcHdr = NilHdr
    /\ mem = [a \in ArrayIds |-> << >>]
    /\ last = NoCall
    /\ copied = FALSE

\* the caller gives the source variable another value
AssignSrc ==
    /\ src' \in UintSources
    /\ src' # src
    /\ last' = [NoCall EXCEPT !.act = "AssignSrc"]
    /\ copied' = FALSE
    /\ UNCHANGED << dstType, dst, dstHdr, srcHdr, mem, exceptTo >>

NextUint == DoTo \/ AssignSrc

SpecUint == InitUint /\ [][NextUint]_vars

(***************************************************************************)
(* Properties of To.                                                       *)
(***************************************************************************)
Me == V(dstType, TRUE)
AfterTo == last.act = "To"
\* the outcome To(Me, v) would have on the d of before the call
SameOutcomeAs(v) ==
    LET r == To(Me, v)
    IN /\ last.st = r.st
       /\ DstValue = IF r.w THEN r.v ELSE last.prev

\* C1: when To returns an error, d holds the zero value of its type: neither
\* its previous value nor a prefix of the coerced elements is left.
C1_FailedToLeavesZero ==
    (AfterTo /\ last.st = "err") =>
        /\ DstValue = ZeroOf(dstType)
        /\ IsSliceType(dstType) => dstHdr = NilHdr

\* a To into a []int that fails on its second element, the first coerced, d
\* holding stale contents before
C1_Witness ==
    /\ AfterTo /\ last.st = "err"
    /\ dstType = "[]int"
    /\ last.arg = SliceV("[]string", << StrV("1"), StrV("x") >>)
    /\ last.prev # ZeroOf(dstType)

\* C2: after a successful To between two slices, a write to an element of the
\* source or an append to the source leaves what d shows unchanged, and a
\* write through d leaves the source unchanged.
C2_SlicesIndependent ==
    [][(copied /\ IsSliceType(dstType) /\ IsSliceType(src.t)) =>
         /\ last'.act \in {"WriteSrc", "AppendSrc"} => DstValue' = DstValue
         /\ last'.act = "WriteDst" => SrcValue' = SrcValue]_vars

\* the source was written after a successful To between slices of one type
C2_Witness ==
    /\ copied /\ last.act = "WriteSrc"
    /\ src.t = dstType /\ dstHdr.len > 0 /\ srcHdr.len > 0

\* C3: a destination that is not a slice, given a sequence, gets the outcome
\* of To(last element); given an empty sequence it is left zero, no error.
C3_SliceCollapsesToLast ==
    (AfterTo /\ ~IsSliceType(dstType) /\ KindOf(last.arg.t) = "slice") =>
        IF last.arg.es # << >>
        THEN SameOutcomeAs(last.arg.es[Len(last.arg.es)])
        ELSE last.st = "ok" /\ DstValue = ZeroOf(dstType)

\* a two-element source whose elements coerce to different values
C3_Witness ==
    /\ AfterTo /\ dstType = "int"
    /\ last.arg = SliceV("[]string", << StrV("x"), StrV("1") >>)
    /\ last.st = "ok" /\ dst = IntV(1)

\* C4: a slice destination given a source that resolves to a value that is no
\* sequence holds, on success, exactly one element: that value coerced to
\* the element type.
C4_ScalarBroadcasts ==
    (/\ AfterTo /\ IsSliceType(dstType) /\ last.st = "ok"
     /\ last.arg.t # "nil" /\ ~Indirect(last.arg).hitNil
     /\ KindOf(Indirect(last.arg).v.t) # "slice") =>
        /\ dstHdr.len = 1
        /\ ElemsOf(dstHdr) = << coerce(ElemOf(dstType), Indirect(last.arg).v).v >>

\* a string behind a pointer broadcast into a []int that held something else
C4_Witness ==
    /\ AfterTo /\ dstType = "[]int" /\ last.st = "ok"
    /\ last.arg = PtrV("*string", StrV("1"))
    /\ last.prev.es # << >>
    /\ ElemsOf(dstHdr) = << IntV(1) >>

\* C5: a pointer source is resolved: a nil pointer in the chain leaves d zero
\* with no error, otherwise the outcome is that of To(value at the end).
C5_PointerResolved ==
    (AfterTo /\ KindOf(last.arg.t) = "ptr" /\ ~AssignableTo(last.arg.t, dstType)) =>
        IF Indirect(last.arg).hitNil
        THEN last.st = "ok" /\ DstValue = ZeroOf(dstType)
        ELSE SameOutcomeAs(Indirect(last.arg).v)

\* the number a source of the Uint examples stands for, in hundredths
Hundredths(v) ==
    CASE v.t = "int" -> 100 * v.n
      [] v.t = "float64" -> v.n
      [] v = StrV("1") -> 100
      [] v = StrV("-1") -> 0 - 100
      [] v = StrV("1.59") -> 159
      [] v = StrV("-3.14") -> 0 - 314
      [] OTHER -> 0
IsNumber(v) ==
    v.t \in {"int", "float64"} \/ v \in {StrV("1"), StrV("-1"), StrV("1.59"), StrV("-3.14")}

\* C11: To of a negative signed integer, a negative float or a text holding a
\* negative integer or decimal leaves an unsigned d at 0, never at a wrapped
\* value; a non-negative source yields its value truncated toward zero.
C11_NegativeToUintIsZero ==
    (AfterTo /\ dstType \in UintTypes /\ IsNumber(last.arg)) =>
        /\ last.st # "panic"
        /\ Hundredths(last.arg) < 0 => DstValue = UintV(dstType, 0)
        /\ Hundredths(last.arg) >= 0 =>
              DstValue = UintV(dstType, Hundredths(last.arg) \div 100)

\* "-3.14" was assigned to a uint64 that held 999
C11_Witness ==
    /\ AfterTo /\ dstType = "uint64"
    /\ last.arg = StrV("-3.14") /\ last.prev = UintV("uint64", 999)
    /\ DstValue = UintV("uint64", 0)

(***************************************************************************)
(* Fields, FieldsByTag, Fill and FillByTag.                                *)
(*                                                                         *)
(* A Getter is a value of type "Getter": s names the struct type whose     *)
(* field names and tag values are its keys, es holds what Get returns for  *)
(* each of them in field order.  A []Getter has type "[]Getter".           *)
(***************************************************************************)
GetterV(shape, es) == [t |-> "Getter", n |-> 0, s |-> shape, p |-> << >>, es |-> es]
GettersV(gs) == [t |-> "[]Getter", n |-> 0, s |-> "", p |-> << >>, es |-> gs]

\* getter.Get(key): nil for a key the Getter does not know
Get(g, key, byTag) ==
    LET fs == DeclaredFields(g.s)
        hit == {k \in 1..Len(fs) : key = IF byTag THEN fs[k].Tag ELSE fs[k].Name}
    IN IF hit = {} THEN Nil ELSE g.es[CHOOSE k \in hit : TRUE]

\* the fields fieldsSupported returns, as positions in the struct
fieldsSupported(me) ==
    IF me.ti.IsStruct THEN [k \in 1..NumField(me.ti.Type) |-> k] ELSE << >>

\* me.Fields()
Fields(me) ==
    IF me.methodFields = "fieldsSupported" THEN fieldsSupported(me) ELSE << >>

HasTag(T, k) == DeclaredFields(T)[k].Tag # ""
\* me.FieldsByTag(key)
FieldsByTag(me) ==
    IF me.methodFieldsByTag = "fieldsByTagSupported"
    THEN SelectSeq(Fields(me), LAMBDA k : HasTag(me.ti.Type, k))
    ELSE << >>

\* Field.Value of field k of the struct me wraps: V(me.WriteValue.Field(k))
FieldValue(me, k) ==
    LET f == DeclaredFields(me.ti.Type)[k]
    IN V(f.Type, me.CanWrite /\ f.Exported)

\* the outcome of filling one struct or one field: the error state, the value
\* left behind and the keys asked of Getters, in order
Filled(st, v, log) == [st |-> st, v |-> v, log |-> log]

\* fill never continues past a failure
AbortsNever(st) == FALSE

\* fill returns as soon as a field's step fails
Aborts(st) == st # "ok"

\* the slice after appendSupported coerced the item with outcome r: the
\* coerced element appended, or the slice left alone
Appended(cur, r) == IF r.st = "ok" THEN SliceV(cur.t, Append(cur.es, r.v)) ELSE cur

\* me.Append(item) on the slice cur
AppendItem(me, cur, item) ==
    IF me.methodAppend # "appendSupported" THEN cur
    ELSE Appended(cur, To(V(me.ti.ElemType, TRUE), item))

\* the default case of fill's switch: the field after To ended with outcome r
FromTo(old, r) == Filled(r.st, IF r.w THEN r.v ELSE old, << >>)

RECURSIVE Fill(_, _, _, _)
RECURSIVE fill(_, _, _, _, _, _, _)
RECURSIVE fillField(_, _, _, _, _, _, _, _)
RECURSIVE FillElems(_, _, _, _, _, _)
RECURSIVE FillElem(_, _, _, _, _, _, _)
RECURSIVE FieldStep(_, _, _, _)

\* the slice-of-structs cases: the field zeroed, then one new element filled
\* and appended per Getter (one Getter in the Getter case); an element's
\* failure returns at once, leaving what was appended so far
FillElems(fv, cur, gs, byTag, i, log) ==
    IF i > Len(gs) THEN Filled("ok", cur, log)
    ELSE FillElem(fv, cur, gs, byTag, i, log,
                  Fill(V(fv.ElemTypeInfo.Type, TRUE), ZeroOf(fv.ElemTypeInfo.Type),
                       gs[i], byTag))

\* the i-th element filled with outcome r
FillElem(fv, cur, gs, byTag, i, log, r) ==
    IF r.st # "ok" THEN Filled(r.st, cur, log \o r.log)
    ELSE FillElems(fv, AppendItem(fv, cur, r.v), gs, byTag, i + 1, log \o r.log)

\* the body of fill's loop for one field: fv wraps the field, old is the value
\* the field holds, got is what the Getter returned
FieldStep(fv, old, got, byTag) ==
    LET sliceOfStructs == fv.ti.IsSlice /\ fv.ElemTypeInfo.IsStruct
        \* the branch the type switch and the field's shape select
        branch ==
            CASE got.t = "Getter" /\ fv.ti.IsStruct -> "struct"
              [] got.t = "Getter" /\ ~fv.ti.IsStruct /\ sliceOfStructs -> "elems"
              [] got.t = "[]Getter" /\ sliceOfStructs -> "elems"
              [] got.t = "[]Getter" /\ ~sliceOfStructs /\ fv.ti.IsStruct ->
                    IF Len(got.es) > 0 THEN "struct" ELSE "skip"
              [] got.t \in {"Getter", "[]Getter"} -> "unfillable"
              [] OTHER -> "To"
        \* the Getter a struct field is filled from: got, or the last of got
        one == IF got.t = "Getter" THEN got
               ELSE IF Len(got.es) > 0 THEN got.es[Len(got.es)] ELSE Nil
        \* the Getters a slice of structs is filled from: got alone, or all of got
        all == IF got.t = "Getter" THEN << got >> ELSE got.es
    IN CASE branch = "struct" -> Fill(fv, old, one, byTag)
         [] branch = "elems" ->
              IF ~ZeroSucceeds(fv) THEN Filled("err", old, << >>)
              ELSE FillElems(fv, ZeroOf(fv.ti.Type), all, byTag, 1, << >>)
         [] branch = "skip" -> Filled("ok", old, << >>)
         [] branch = "unfillable" -> Filled("err", old, << >>)
         [] OTHER -> FromTo(old, To(fv, got))

\* the key fill asks the Getter for field k
KeyOf(T, k, byTag) ==
    IF byTag THEN DeclaredFields(T)[k].Tag ELSE DeclaredFields(T)[k].Name

\* Value.fill from the i-th of fields on
fill(me, val, g, fields, byTag, i, log) ==
    IF i > Len(fields) THEN Filled("ok", val, log)
    ELSE fillField(me, val, g, fields, byTag, i,
                   Append(log, KeyOf(me.ti.Type, fields[i], byTag)),
                   FieldStep(FieldValue(me, fields[i]), val.es[fields[i]],
                             Get(g, KeyOf(me.ti.Type, fields[i], byTag), byTag), byTag))

\* the i-th field's step ended with outcome r: return its error, or go on
fillField(me, val, g, fields, byTag, i, log, r) ==
    IF Aborts(r.st)
    THEN Filled(r.st, [val EXCEPT !.es[fields[i]] = r.v], log \o r.log)
    ELSE fill(me, [val EXCEPT !.es[fields[i]] = r.v], g, fields, byTag, i + 1, log \o r.log)

\* Value.Fill (byTag false) and Value.FillByTag (byTag true)
Fill(me, val, g, byTag) ==
    fill(me, val, g, IF byTag THEN FieldsByTag(me) ELSE Fields(me), byTag, 1, << >>)

(***************************************************************************)
(* Filling a struct variable s, wrapped as V(&s), from a Getter.           *)
(***************************************************************************)
FillTypes == {"Outer", "Inner", "Mixed"}

InnerGetters ==
    {GetterV("Inner", << IntV(1), StrV("1") >>),
     GetterV("Inner", << StrV("x"), StrV("1") >>),
     GetterV("Inner", << StrV("1"), Nil >>)}
\* what a Getter may return for a field that is a slice of structs
NestedGot ==
    InnerGetters \cup {GettersV(gs) : gs \in SeqsUpTo(InnerGetters, MaxGetters)}
        \cup {IntV(1), Nil}
\* what a Getter may return for a field that is a struct
StructGot ==
    InnerGetters \cup {GettersV(gs) : gs \in SeqsUpTo(InnerGetters, 1)}
        \cup {GettersV(<< g, h >>) : g, h \in InnerGetters} \cup {IntV(1), Nil}
GettersFor(T) ==
    CASE T = "Outer" ->
           {GetterV("Outer", << a, in, ins, z >>) :
               a \in {IntV(0), StrV("x"), PtrV("*int", IntV(0))},
               in \in StructGot, ins \in NestedGot,
               z \in {IntV(0), SliceV("[]string", << StrV("1"), StrV("x") >>)}}
      [] T = "Mixed" ->
           {GetterV("Mixed", << q, h, r >>) :
               q \in {IntV(0), StrV("x")}, h \in {IntV(0), Nil}, r \in {StrV("1"), IntV(0)}}
      [] OTHER -> InnerGetters

\* a struct holding earlier, non-zero contents
StaleInner == StructV("Inner", << IntV(1), StrV("x") >>)
Stale(T) ==
    CASE T = "Outer" ->
           StructV("Outer", << IntV(1), StaleInner, SliceV("[]Inner", << StaleInner >>),
                               SliceV("[]int", << IntV(1) >>) >>)
      [] T = "Mixed" -> StructV("Mixed", << IntV(1), IntV(1), StrV("x") >>)
      [] OTHER -> StaleInner

\* nothing is being assigned
IdleTo ==
    /\ dstType = "nil" /\ dst = Nil /\ dstHdr = NilHdr /\ src = Nil /\ srcHdr = NilHdr
    /\ mem = [a \in ArrayIds |-> << >>] /\ last = NoCall /\ copied = FALSE

InitFill ==
    /\ IdleTo /\ IdleCache /\ IdleWalk /\ IdleWrap
    /\ fillType \in FillTypes
    /\ fillVal \in {ZeroOf(fillType), Stale(fillType)}
    /\ getter \in GettersFor(fillType)
    /\ fillLast = NoFill

\* what a call that ended with outcome r leaves in s and in fillLast
Returned(byTag, r) ==
    [val |-> r.v,
     call |-> [act |-> IF byTag THEN "FillByTag" ELSE "Fill",
               st |-> r.st, log |-> r.log, prev |-> fillVal]]

\* V(&s).Fill(getter)
DoFill ==
    LET c == Returned(FALSE, Fill(V(fillType, TRUE), fillVal, getter, FALSE))
    IN /\ fillVal' = c.val
       /\ fillLast' = c.call
       /\ UNCHANGED << fillType, getter, exceptFill >>

\* V(&s).FillByTag(key, getter)
DoFillByTag ==
    LET c == Returned(TRUE, Fill(V(fillType, TRUE), fillVal, getter, TRUE))
    IN /\ fillVal' = c.val
       /\ fillLast' = c.call
       /\ UNCHANGED << fillType, getter, exceptFill >>

NextFill == DoFill \/ DoFillByTag

SpecFill == InitFill /\ [][NextFill]_vars

(***************************************************************************)
(* Properties of Fill and FillByTag.                                       *)
(***************************************************************************)
AfterFill == fillLast.act # "none"
FilledByTag == fillLast.act = "FillByTag"
FillMe == V(fillType, TRUE)
\* the fields the call enumerated
Enumerated == IF FilledByTag THEN FieldsByTag(FillMe) ELSE Fields(FillMe)
\* what the step of the i-th enumerated field does on its own to the value the
\* field held before the call
StepAlone(i) ==
    LET k == Enumerated[i]
    IN FieldStep(FieldValue(FillMe, k), fillLast.prev.es[k],
                 Get(getter, KeyOf(fillType, k, FilledByTag), FilledByTag), FilledByTag)
Failing == {i \in 1..Len(Enumerated) : StepAlone(i).st # "ok"}
\* the first enumerated field whose step fails; past the end when none does
FirstFailing ==
    IF Failing = {} THEN Len(Enumerated) + 1
    ELSE CHOOSE i \in Failing : \A j \in Failing : i <= j
\* the keys asked while the first n enumerated fields are processed
RECURSIVE KeysAsked(_)
KeysAsked(n) ==
    IF n = 0 THEN << >>
    ELSE (KeysAsked(n - 1) \o << KeyOf(fillType, Enumerated[n], FilledByTag) >>)
             \o StepAlone(n).log

\* C6: Fill and FillByTag take the fields in declaration order and stop at the
\* first field whose step fails: the call ends as that step ended, no later
\* field is asked of the Getter or modified, and every field up to there holds
\* what its own To or nested fill committed.
C6_FillStopsAtFirstFailure ==
    AfterFill =>
        LET n == Len(Enumerated)
            j == FirstFailing
            reached == IF j > n THEN n ELSE j
        IN /\ fillLast.st = IF j > n THEN "ok" ELSE StepAlone(j).st
           /\ fillLast.log = KeysAsked(reached)
           /\ \A i \in 1..n :
                fillVal.es[Enumerated[i]] =
                    IF i <= j THEN StepAlone(i).v ELSE fillLast.prev.es[Enumerated[i]]
           /\ \A k \in 1..NumField(fillType) :
                (\A i \in 1..n : Enumerated[i] # k) => fillVal.es[k] = fillLast.prev.es[k]

\* a Fill of an Outer that committed field A, failed with an error inside
\* the second field and left the stale third and fourth fields alone
C6_Witness ==
    /\ fillLast.act = "Fill" /\ fillType = "Outer" /\ fillLast.st = "err"
    /\ FirstFailing = 2
    /\ fillLast.prev = Stale("Outer")
    /\ fillVal.es[1] = IntV(0)
    /\ fillVal.es[2] # fillLast.prev.es[2]
    /\ fillVal.es[3] = fillLast.prev.es[3] /\ fillVal.es[4] = fillLast.prev.es[4]
    /\ getter.es[3].t = "[]Getter" /\ Len(getter.es[3].es) = 2

\* the names and tag values of the unexported fields of T
UnexportedKeys(T) ==
    UNION {{DeclaredFields(T)[k].Name, DeclaredFields(T)[k].Tag} :
              k \in {i \in 1..NumField(T) : ~DeclaredFields(T)[i].Exported}}

\* C9: the descriptor's field list, Fields() and FieldsByTag() hold only the
\* exported fields of a struct, and Fill / FillByTag never ask the Getter for
\* an unexported field.
C9_OnlyExportedFields ==
    AfterFill =>
        /\ \A k \in 1..Len(StatTypeOf(fillType).StructFields) :
              StatTypeOf(fillType).StructFields[k].Exported
        /\ \A i \in 1..Len(Fields(FillMe)) :
              DeclaredFields(fillType)[Fields(FillMe)[i]].Exported
        /\ \A i \in 1..Len(FieldsByTag(FillMe)) :
              DeclaredFields(fillType)[FieldsByTag(FillMe)[i]].Exported
        /\ \A i \in 1..Len(fillLast.log) : fillLast.log[i] \notin UnexportedKeys(fillType)

(***************************************************************************)
(* The type cache under concurrent calls of StatType.  Each thread runs    *)
(* the statements of StatType in order; the lookup (cache.Load) and the    *)
(* insertion (cache.Store) are atomic steps of the sync.Map, everything    *)
(* between them works on the thread's local rv.                            *)
(***************************************************************************)
Threads == 1..NumThreads
CacheTypes == {"[]int", "*Mixed"}

\* StatType with the Store before rv.Type and rv.Kind are set
ProgramStoreEarly == << "load", "classify", "attach", "store", "describe", "return" >>

\* the statements of StatType after the nil check, in order
Program == << "load", "classify", "attach", "describe", "store", "return" >>

At(t, stmt) == pc[t] # 0 /\ Program[pc[t]] = stmt
Goto(t, n) == pc' = [pc EXCEPT ![t] = n]
\* thread t is past a lookup that missed and has not stored yet
Building(t) ==
    pc[t] > 1 /\ \E n \in pc[t]..Len(Program) : Program[n] = "store"

\* a lookup that never finds the entry
HitNever(t) == FALSE

\* rv, ok := me.cache.Load(T): ok
Hit(t) == cache[statT[t]] # << >>

InitCache ==
    /\ IdleTo /\ IdleFill /\ IdleWalk /\ IdleWrap
    /\ cache = [T \in CacheTypes |-> << >>]
    /\ pc = [t \in Threads |-> 0]
    /\ statT = [t \in Threads |-> "nil"]
    /\ statRv = [t \in Threads |-> ZeroTypeInfo]
    /\ builds = [T \in CacheTypes |-> 0]
    /\ raced = [T \in CacheTypes |-> FALSE]
    /\ returned = [T \in CacheTypes \cup {"nil"} |-> {}]

\* a thread calls StatType(nil): the zero descriptor, nothing cached
CallNil(t) ==
    /\ pc[t] = 0
    /\ returned' = [returned EXCEPT !["nil"] = @ \cup {[d |-> ZeroTypeInfo, how |-> "nil"]}]
    /\ UNCHANGED << cache, pc, statT, statRv, builds, raced, exceptCache >>

\* a thread calls StatType(T), or Stat on a value of type T
Call(t) ==
    /\ pc[t] = 0
    /\ \E T \in CacheTypes : statT' = [statT EXCEPT ![t] = T]
    /\ statRv' = [statRv EXCEPT ![t] = ZeroTypeInfo]
    /\ Goto(t, 1)
    /\ UNCHANGED << cache, builds, raced, returned, exceptCache >>

\* the lookup finds the descriptor and returns it
LoadHit(t) ==
    /\ At(t, "load") /\ Hit(t)
    /\ returned' = [returned EXCEPT ![statT[t]] = @ \cup {[d |-> cache[statT[t]][1], how |-> "hit"]}]
    /\ Goto(t, 0)
    /\ UNCHANGED << cache, statT, statRv, builds, raced, exceptCache >>

\* the lookup finds nothing: rv := TypeInfo{} and the call goes on to build
LoadMiss(t) ==
    /\ At(t, "load") /\ ~Hit(t)
    /\ statRv' = [statRv EXCEPT ![t] = ZeroTypeInfo]
    /\ raced' = [raced EXCEPT ![statT[t]] =
                    @ \/ \E u \in Threads \ {t} : statT[u] = statT[t] /\ Building(u)]
    /\ Goto(t, pc[t] + 1)
    /\ UNCHANGED << cache, statT, builds, returned, exceptCache >>

\* the pointer loop and the classification flags
Classify(t) ==
    /\ At(t, "classify")
    /\ statRv' = [statRv EXCEPT ![t] = Classified(@, KindOf(EndOfChain(statT[t])))]
    /\ Goto(t, pc[t] + 1)
    /\ UNCHANGED << cache, statT, builds, raced, returned, exceptCache >>

\* the element type or the struct fields
Attach(t) ==
    /\ At(t, "attach")
    /\ statRv' = [statRv EXCEPT ![t] = Attached(@, EndOfChain(statT[t]))]
    /\ Goto(t, pc[t] + 1)
    /\ UNCHANGED << cache, statT, builds, raced, returned, exceptCache >>

\* rv.Type, rv.Kind = T, K
Describe(t) ==
    /\ At(t, "describe")
    /\ statRv' = [statRv EXCEPT ![t] =
                     Described(@, EndOfChain(statT[t]), KindOf(EndOfChain(statT[t])))]
    /\ Goto(t, pc[t] + 1)
    /\ UNCHANGED << cache, statT, builds, raced, returned, exceptCache >>

\* me.cache.Store(origT, rv)
Store(t) ==
    /\ At(t, "store")
    /\ cache' = [cache EXCEPT ![statT[t]] = << statRv[t] >>]
    /\ builds' = [builds EXCEPT ![statT[t]] = @ + 1]
    /\ Goto(t, pc[t] + 1)
    /\ UNCHANGED << statT, statRv, raced, returned, exceptCache >>

\* return rv
Return(t) ==
    /\ At(t, "return")
    /\ returned' = [returned EXCEPT ![statT[t]] = @ \cup {[d |-> statRv[t], how |-> "built"]}]
    /\ Goto(t, 0)
    /\ UNCHANGED << cache, statT, statRv, builds, raced, exceptCache >>

NextCache ==
    \E t \in Threads :
        \/ CallNil(t) \/ Call(t) \/ LoadHit(t) \/ LoadMiss(t)
        \/ Classify(t) \/ Attach(t) \/ Describe(t) \/ Store(t) \/ Return(t)

SpecCache == InitCache /\ [][NextCache]_vars

(***************************************************************************)
(* Properties of the type cache.                                           *)
(***************************************************************************)
\* C7 as stated: the descriptor of a type is built and stored exactly once,
\* whatever the number of calls and threads.
C7_ComputedExactlyOnce == \A T \in CacheTypes : builds[T] <= 1

\* C7 as amended: a descriptor is built only by a call whose lookup found no
\* entry: once when the calls for the type do not overlap, at most once per
\* racing caller otherwise; a call that finds an entry returns it without
\* building; the content of a stored entry never changes.
C7_BuiltOncePerMiss ==
    /\ [](\A T \in CacheTypes :
            /\ builds[T] <= 1 \/ raced[T]
            /\ builds[T] <= NumThreads
            /\ returned[T] # {} => builds[T] >= 1)
    /\ [][\A T \in CacheTypes : cache[T] # << >> => cache'[T] = cache[T]]_vars
    /\ [][\A t \in Threads :
            (At(t, "load") /\ cache[statT[t]] # << >> /\ pc'[t] # pc[t]) =>
                /\ pc'[t] = 0 /\ builds' = builds /\ cache' = cache
                /\ returned'[statT[t]] =
                      returned[statT[t]] \cup {[d |-> cache[statT[t]][1], how |-> "hit"]}]_vars

\* two racing calls both built and stored the descriptor of one type, and a
\* later call found it
C7_Witness ==
    \E T \in CacheTypes :
        /\ builds[T] = 2 /\ raced[T]
        /\ \E r \in returned[T] : r.how = "hit"

\* the descriptor of T with every part in place
FullyBuilt(d, T) ==
    LET E == EndOfChain(T)
    IN /\ d.Type = E /\ d.Kind = KindOf(E) /\ d.Kind # "invalid"
       /\ d.IsSlice = (d.Kind = "slice") /\ d.IsStruct = (d.Kind = "struct")
       /\ d.IsMap = (d.Kind = "map") /\ d.IsScalar = (d.Kind \in ScalarTypes)
       /\ d.ElemType = IF d.Kind \in {"slice", "map"} THEN ElemOf(E) ELSE "nil"
       /\ Len(d.StructFields) = IF d.Kind = "struct" THEN NumField(E) ELSE 0
       /\ \A k \in 1..Len(d.StructFields) : d.StructFields[k] = DeclaredFields(E)[k]

\* C8: in every interleaving each call returns a fully built descriptor, and
\* all calls for one type return the same flags, resolved type, element type
\* and field list.
C8_ReturnsAgree ==
    \A T \in CacheTypes :
        /\ \A r \in returned[T] : FullyBuilt(r.d, T)
        /\ \A r1, r2 \in returned[T] : r1.d = r2.d

\* a type was returned both by a call that built it and by a call that found
\* it in the cache while calls raced, and another thread is still building
C8_Witness ==
    \E T \in CacheTypes :
        /\ raced[T]
        /\ \E r1, r2 \in returned[T] : r1.how = "built" /\ r2.how = "hit"
        /\ \E t \in Threads : Building(t)

(***************************************************************************)
(* Value.FieldByIndex.  The outcome of me.FieldByIndex(index): st is "ok"  *)
(* (a wrapper of a value of type t is returned), "err" (the error err is   *)
(* returned) or "panic"; v is what the walked struct holds afterwards.     *)
(***************************************************************************)
Walked(st, err, t, v) == [st |-> st, err |-> err, t |-> t, v |-> v]

\* n > v.NumField(): the bounds test made before v.Field(n)
OutOfBounds(v, n) == n > NumField(v.t)

\* reflect.Value.Field(n) panics unless 0 <= n < v.NumField()
FieldPanics(v, n) == n < 0 \/ n >= NumField(v.t)

\* the struct v after the walk below its field n ended as r
WithField(v, n, r) == Walked(r.st, r.err, r.t, [v EXCEPT !.es[n + 1] = r.v])

\* the pointer f after the walk below its pointee ended as r
WithPointee(f, r) == Walked(r.st, r.err, r.t, PtrV(f.t, r.v))

RECURSIVE FieldByIndexFrom(_, _, _, _), Instantiate(_, _, _, _)
\* the loop from index[k] on, v being the value reached so far; past the
\* last index: return V(v), nil
FieldByIndexFrom(v, index, k, settable) ==
    IF k > Len(index) THEN Walked("ok", "", v.t, v)
    ELSE IF KindOf(v.t) # "struct" THEN Walked("err", "NotStruct", "nil", v)
    ELSE IF OutOfBounds(v, index[k]) THEN Walked("err", "OutOfBounds", "nil", v)
    ELSE IF FieldPanics(v, index[k]) THEN Walked("panic", "", "nil", v)
    ELSE WithField(v, index[k],
            Instantiate(v.es[index[k] + 1], index, k + 1,
                        settable /\ DeclaredFields(v.t)[index[k] + 1].Exported))

\* "Instantiate nil pointer chains": a nil pointer that can be set gets fresh
\* zero storage; Elem() of one that can not is the zero reflect.Value, whose
\* Type() panics
Instantiate(f, index, k, settable) ==
    IF KindOf(f.t) # "ptr" THEN FieldByIndexFrom(f, index, k, settable)
    ELSE IF f.p # << >> THEN WithPointee(f, Instantiate(f.p[1], index, k, settable))
    ELSE IF settable
         THEN WithPointee(f, Instantiate(ZeroOf(ElemOf(f.t)), index, k, settable))
    ELSE Walked("panic", "", "nil", f)

\* me.FieldByIndex(index), me wrapping the struct h (nilRecv: me == nil)
FieldByIndex(nilRecv, me, h, index) ==
    IF nilRecv THEN Walked("err", "NilReceiver", "nil", h)
    ELSE IF ~me.CanWrite THEN Walked("err", "NotAssignable", "nil", h)
    ELSE IF Len(index) = 0 THEN Walked("err", "ZeroLength", "nil", h)
    ELSE FieldByIndexFrom(h, index, 1, TRUE)

\* the numbers an index path is made of: every field number of a Holder, the
\* two on either side, and one further
Indexes == (0 - 1) .. (NumField("Holder") + 1)

\* h as a program may have left it: P nil or pointing at an Inner
Holders ==
    {StructV("Holder", << IntV(0), p, ZeroOf("Inner") >>) :
        p \in {NilPtr("*Inner"), PtrV("*Inner", StructV("Inner", << IntV(1), StrV("x") >>))}}

InitWalk ==
    /\ IdleTo /\ IdleFill /\ IdleCache /\ IdleWrap
    /\ walkVal \in Holders
    /\ walkLast = NoWalk

\* what the call's record keeps of the receiver
Receiver(nilRecv, settable) ==
    IF nilRecv THEN "nil" ELSE IF settable THEN "writable" ELSE "readonly"

\* the record of a call that ended as r
Called(nilRecv, settable, index, r) ==
    [recv |-> Receiver(nilRecv, settable), index |-> index,
     st |-> r.st, err |-> r.err, t |-> r.t]

\* set.V(&h).FieldByIndex(index), set.V(h).FieldByIndex(index) or the call on
\* a nil *Value
DoFieldByIndex ==
    \E nilRecv, settable \in BOOLEAN, index \in SeqsUpTo(Indexes, MaxPath) :
        /\ walkVal' = FieldByIndex(nilRecv, V(walkVal.t, settable), walkVal, index).v
        /\ walkLast' = Called(nilRecv, settable, index,
                              FieldByIndex(nilRecv, V(walkVal.t, settable), walkVal, index))
        /\ UNCHANGED exceptWalk

\* the program assigns h anew; the outcome of the call made before stays
WriteHolder ==
    /\ walkVal' \in Holders
    /\ walkVal' # walkVal
    /\ UNCHANGED << walkLast, exceptWalk >>

NextWalk == DoFieldByIndex \/ WriteHolder

SpecWalk == InitWalk /\ [][NextWalk]_vars

(***************************************************************************)
(* Properties of FieldByIndex.                                             *)
(***************************************************************************)
\* what is wrong with the path index from its k-th element on, starting at a
\* value of type T: "range" when the first element at fault is out of range
\* for the struct reached, "shape" when the value reached is not a struct
RECURSIVE PathFault(_, _, _)
PathFault(T, index, k) ==
    IF k > Len(index) THEN "none"
    ELSE IF KindOf(T) # "struct" THEN "shape"
    ELSE IF index[k] < 0 \/ index[k] >= NumField(T) THEN "range"
    ELSE PathFault(EndOfChain(DeclaredFields(T)[index[k] + 1].Type), index, k + 1)

\* C10: on a writable struct wrapper and a non-empty path, FieldByIndex
\* returns an error, never panics, when a path element is out of range for the
\* struct reached (n < 0 or n >= its number of fields), and returns a wrapper
\* only when every element is in range and every intermediate value a struct.
C10_OutOfRangeIsError ==
    (walkLast.recv = "writable" /\ Len(walkLast.index) > 0) =>
        /\ PathFault(walkVal.t, walkLast.index, 1) = "range" => walkLast.st = "err"
        /\ walkLast.st = "ok" => PathFault(walkVal.t, walkLast.index, 1) = "none"

(***************************************************************************)
(* The methods V binds: Append and NewElem on the wrapper of a variable x. *)
(* The outcome of a method: st is "ok" or "err" (the error err is          *)
(* returned), v is what x holds afterwards.                                *)
(***************************************************************************)
Method(st, err, v) == [st |-> st, err |-> err, v |-> v]

RECURSIVE AppendLoop(_, _, _, _, _)
RECURSIVE AppendStep(_, _, _, _, _, _)
\* appendSupported from items[k] on, built being the elements coerced so far;
\* past the last item: me.WriteValue.Set(reflect.AppendSlice(...)), whose
\* panic on a value that can not be set is recovered into an error
AppendLoop(me, cur, items, k, built) ==
    IF k > Len(items)
    THEN IF me.CanWrite THEN Method("ok", "", SliceV(cur.t, cur.es \o built))
         ELSE Method("err", "Recovered", cur)
    ELSE AppendStep(me, cur, items, k, built, To(V(me.ti.ElemType, TRUE), items[k]))

\* the step of the loop after elemAsValue.To(item) ended as r
AppendStep(me, cur, items, k, built, r) ==
    CASE r.st = "err" -> Method("err", "Coercion", cur)
      [] r.st = "panic" -> Method("err", "Recovered", cur)
      [] OTHER -> AppendLoop(me, cur, items, k + 1, Append(built, r.v))

\* me.Append(items...), x holding cur (nilRecv: me == nil)
ValueAppend(nilRecv, me, cur, items) ==
    IF nilRecv THEN Method("err", "NilReceiver", cur)
    ELSE IF me.methodAppend = "appendSupported" THEN AppendLoop(me, cur, items, 1, << >>)
    ELSE Method("err", "Unsupported", cur)

\* me.NewElem(): x is left alone
NewElem(nilRecv, me, cur) ==
    IF nilRecv THEN Method("err", "NilReceiver", cur)
    ELSE IF me.methodNewElem = "newElemSupported" THEN Method("ok", "", cur)
    ELSE Method("err", "Unsupported", cur)

\* the types of the variables wrapped, and the items appended
WrapTypes == {"[]int", "[]string", "map[string]int", "int", "Inner"}
AppendArgs == {IntV(1), StrV("1"), StrV("x")}

InitWrap ==
    /\ IdleTo /\ IdleFill /\ IdleCache /\ IdleWalk
    /\ \E T \in WrapTypes, settable \in BOOLEAN :
         /\ wrapped = V(T, settable)
         /\ wrapVal = ZeroOf(T)
    /\ wrapLast = NoMethod

\* set.V(&x) or set.V(x) of another variable x holding its zero value
DoV ==
    /\ \E T \in WrapTypes, settable \in BOOLEAN :
         /\ wrapped' = V(T, settable)
         /\ wrapVal' = ZeroOf(T)
    /\ wrapped' # wrapped
    /\ wrapLast' = [NoMethod EXCEPT !.act = "V"]
    /\ UNCHANGED exceptWrap

\* wrapper.Append(items...); a slice x is appended to while shorter than MaxLen
DoAppend ==
    /\ wrapped.ti.IsSlice => Len(wrapVal.es) < MaxLen
    /\ \E nilRecv \in BOOLEAN, items \in SeqsUpTo(AppendArgs, MaxLen) :
         /\ wrapVal' = ValueAppend(nilRecv, wrapped, wrapVal, items).v
         /\ wrapLast' = [act |-> "Append",
                         st |-> ValueAppend(nilRecv, wrapped, wrapVal, items).st,
                         err |-> ValueAppend(nilRecv, wrapped, wrapVal, items).err,
                         n |-> Len(items)]
    /\ UNCHANGED << wrapped, exceptWrap >>

\* wrapper.NewElem()
DoNewElem ==
    /\ \E nilRecv \in BOOLEAN :
         wrapLast' = [act |-> "NewElem",
                      st |-> NewElem(nilRecv, wrapped, wrapVal).st,
                      err |-> NewElem(nilRecv, wrapped, wrapVal).err,
                      n |-> 0]
    /\ UNCHANGED << wrapped, wrapVal, exceptWrap >>

NextWrap == DoV \/ DoAppend \/ DoNewElem

SpecWrap == InitWrap /\ [][NextWrap]_vars

(***************************************************************************)
(* Properties of the bound methods.                                        *)
(***************************************************************************)
\* C12: a wrapper classified Map or Slice has its element descriptor attached
\* and Append and NewElem bound to their implementations, so that Append on
\* it (on a wrapper that is not nil) never returns the "unsupported" error.
C12_MapAndSliceAppend ==
    (wrapped.ti.IsMap \/ wrapped.ti.IsSlice) =>
        /\ wrapped.ElemTypeInfo = StatTypeOf(wrapped.ti.ElemType)
        /\ wrapped.methodAppend = "appendSupported"
        /\ wrapped.methodNewElem = "newElemSupported"
        /\ wrapLast.act = "Append" => wrapLast.err # "Unsupported"

====
